---- MODULE Spec2Model ----
(***************************************************************************)
(* Garrison aggregate of garrison-server-app: GarrisonRepository           *)
(* (src/src/repos/dynamic/garrison/garrison.repo.ts).                      *)
(*                                                                         *)
(* One stored garrison document, the wall clock, and the seven mutating    *)
(* operations of the repository; the collection it is stored in, and       *)
(* create.  Dates are milliseconds since the start of the clock, which is  *)
(* the creation of the garrison where the garrison is there from the       *)
(* start.  Resource amounts are JavaScript numbers; the                    *)
(* refund of cancelBuildingConstruction is not rounded (lines 263-265), so *)
(* amounts are held in hundredths (Cent), which is exact for improvement   *)
(* levels up to 2 with one-decimal factors.                                *)
(***************************************************************************)
EXTENDS Integers, Sequences, FiniteSets, TLC

VARIABLES
  now,      \* wall clock (ms)
  db,       \* the persisted garrison document (or NoGarrison before create)
  nextId,   \* source of fresh ObjectIds
  ticks,    \* clock steps taken
  served,   \* number of requests that saved
  last,     \* the last request and its outcome
  prev,     \* the persisted garrison before the last request
  sess,     \* per request in flight: loaded document and position
  coll      \* the garrison collection: _id, characterId and name of each stored
            \* garrison, in order of insertion; db is the document of one of them

vars == <<now, db, nextId, ticks, served, last, prev, sess, coll>>

----------------------------------------------------------------------------
(* Bounds of the model *)

MaxTicks == 2          \* clock steps per behaviour
MaxBuildings == 2      \* buildings a garrison may hold in the model
MaxWorkforce == 2      \* largest workforce a payload names
MaxQuantity == 2       \* largest quantity a payload names
MaxOps == 2            \* requests that save, per behaviour
MaxGarrisons == 2      \* garrisons the collection may hold in the model

SecondMs == 1000
TickMs == 30 * SecondMs
MinuteMs == 60 * SecondMs
Cent == 10 * 10
HarvestEndDate == 2000000000   \* new Date('2099-01-01'): beyond every clock value
NoDate == 0 - 1                \* an absent (undefined) date
NoValue == 0 - 1               \* an absent (undefined) number
NoId == 0                      \* an absent ObjectId

----------------------------------------------------------------------------
(* Arithmetic of the source: Math.pow, Math.round, Math.floor on rationals *)

RECURSIVE Pow(_, _)
Pow(b, e) == IF e <= 0 THEN 1 ELSE b * Pow(b, e - 1)

\* Math.round(n / d) for n >= 0, d > 0 (half rounds up)
RoundDiv(n, d) == (2 * n + d) \div (2 * d)

\* Math.floor(n / d) for n >= 0, d > 0
FloorDiv(n, d) == n \div d

RECURSIVE SeqSum(_)
SeqSum(s) == IF s = << >> THEN 0 ELSE Head(s) + SeqSum(Tail(s))

RECURSIVE SeqMax(_)
SeqMax(s) == IF s = << >> THEN 0
             ELSE LET m == SeqMax(Tail(s)) IN IF Head(s) > m THEN Head(s) ELSE m

\* Array.prototype.findIndex: first 1-based index satisfying P, 0 when none
FindIndex(s, P(_)) ==
  IF \E i \in 1..Len(s) : P(s[i])
    THEN CHOOSE i \in 1..Len(s) : P(s[i]) /\ \A j \in 1..(i - 1) : ~P(s[j])
    ELSE 0

\* Array.prototype.splice(i, 1) with a 1-based index
RemoveAt(s, i) == [j \in 1..(Len(s) - 1) |-> IF j < i THEN s[j] ELSE s[j + 1]]

----------------------------------------------------------------------------
(* Static catalog (read-only collaborator) *)

NoHarvest == [resource |-> "none", amount |-> 0, maxWorkforce |-> NoValue]
NoExtension == [maxLevel |-> 0, required |-> << >>]

BuildingCodes == {"goldmine", "sawmill", "farm", "barracks"}
UnitCodes == {"peasant", "militia"}

StaticBuilding(code) ==
  CASE code = "goldmine" ->
         [code |-> "goldmine",
          cost |-> [gold |-> 100, wood |-> 50, plot |-> 5],
          minWorkforce |-> 1, duration |-> 60, required |-> << >>,
          upgrades |-> << [level |-> 1, required |-> << >>],
                          [level |-> 2, required |-> << >>] >>,
          hasExtension |-> TRUE,
          extension |-> [maxLevel |-> 2, required |-> << >>],
          hasHarvest |-> TRUE,
          harvest |-> [resource |-> "gold", amount |-> 3, maxWorkforce |-> 2]]
    [] code = "sawmill" ->
         [code |-> "sawmill",
          cost |-> [gold |-> 80, wood |-> 40, plot |-> 4],
          minWorkforce |-> 1, duration |-> 30, required |-> << >>,
          upgrades |-> << [level |-> 1, required |-> << >>] >>,
          hasExtension |-> FALSE,
          extension |-> NoExtension,
          hasHarvest |-> TRUE,
          harvest |-> [resource |-> "wood", amount |-> 3, maxWorkforce |-> 2]]
    [] code = "farm" ->
         [code |-> "farm",
          cost |-> [gold |-> 60, wood |-> 60, plot |-> 6],
          minWorkforce |-> 1, duration |-> 30, required |-> << >>,
          upgrades |-> << [level |-> 1, required |-> << >>] >>,
          hasExtension |-> TRUE,
          extension |-> [maxLevel |-> 1, required |-> << >>],
          hasHarvest |-> TRUE,
          harvest |-> [resource |-> "food", amount |-> 3, maxWorkforce |-> NoValue]]
    [] OTHER ->
         [code |-> "barracks",
          cost |-> [gold |-> 120, wood |-> 80, plot |-> 8],
          minWorkforce |-> 2, duration |-> 60,
          required |-> << [code |-> "goldmine", upgradeLevel |-> NoValue] >>,
          upgrades |-> << >>,
          hasExtension |-> TRUE,
          extension |-> [maxLevel |-> 1,
                         required |-> << [code |-> "goldmine", upgradeLevel |-> 1,
                                          level |-> 1] >>],
          hasHarvest |-> FALSE,
          harvest |-> NoHarvest]

StaticUnit(code) ==
  CASE code = "peasant" ->
         [code |-> "peasant",
          cost |-> [gold |-> 50, wood |-> 0, food |-> 1],
          duration |-> 30, required |-> << >>]
    [] OTHER ->
         [code |-> "militia",
          cost |-> [gold |-> 100, wood |-> 50, food |-> 2],
          duration |-> 60,
          required |-> << [code |-> "goldmine", upgradeLevel |-> NoValue] >>]

\* _gH.getFactor('default') and _gH.getFactor('decreased'), in tenths
DefaultFactorTenths == 16
DecreasedFactorTenths == 15

----------------------------------------------------------------------------
(* The garrison document *)

NoImprovement == [type |-> "none", level |-> 0]

NoGarrison == [exists |-> FALSE,
               resources |-> [gold |-> 0, wood |-> 0, food |-> 0, plot |-> 0,
                              goldLastUpdate |-> NoDate, woodLastUpdate |-> NoDate],
               buildings |-> << >>, units |-> << >>]

\* create without the starter cohort
createUnmanned ==
  [exists |-> TRUE,
   resources |-> [gold |-> 625 * Cent, wood |-> 320 * Cent, food |-> 3 * Cent,
                  plot |-> 32 * Cent,
                  goldLastUpdate |-> NoDate, woodLastUpdate |-> NoDate],
   buildings |-> << >>,
   units |-> << >>]

\* GarrisonRepository.create: the document handed to _model.create
create ==
  [exists |-> TRUE,
   resources |-> [gold |-> 625 * Cent, wood |-> 320 * Cent, food |-> 3 * Cent,
                  plot |-> 32 * Cent,
                  goldLastUpdate |-> NoDate, woodLastUpdate |-> NoDate],
   buildings |-> << >>,
   units |-> << [code |-> "peasant", quantity |-> 3, assignments |-> << >>] >>]

\* _h.addTime(date, ms)
addTime(date, ms) == date + ms

\* Busy with the comparison turned round
BusyInverted(building, t) ==
  \E i \in 1..Len(building.constructions) : building.constructions[i].endDate < t

\* c.endDate.getTime() > now.getTime() for some construction of the building
Busy(building, t) ==
  \E i \in 1..Len(building.constructions) : building.constructions[i].endDate > t

\* CurrentLevel that sees no improvement
CurrentLevelNone(building, type) == 0

\* highest level among the building's improvements of one type, 0 when none
CurrentLevel(building, type) ==
  SeqMax([i \in 1..Len(building.constructions) |->
            IF building.constructions[i].improvement.type = type
              THEN building.constructions[i].improvement.level ELSE 0])

\* Unavailable that counts the 'harvest' assignments only
UnavailableHarvesters(unit, t) ==
  SeqSum([i \in 1..Len(unit.assignments) |->
            IF unit.assignments[i].type = "harvest"
              THEN unit.assignments[i].quantity ELSE 0])

\* quantity committed to assignments whose endDate is still ahead
Unavailable(unit, t) ==
  SeqSum([i \in 1..Len(unit.assignments) |->
            IF unit.assignments[i].endDate > t
              THEN unit.assignments[i].quantity ELSE 0])

\* _gH.findBuilding / _gH.findUnit / _gH.findBuildingConstruction: index or 0
findBuilding(g, buildingId) ==
  FindIndex(g.buildings, LAMBDA b : b.id = buildingId)

findUnit(g, code) ==
  FindIndex(g.units, LAMBDA u : u.code = code)

findBuildingConstruction(building, constructionId) ==
  FindIndex(building.constructions, LAMBDA c : c.id = constructionId)

----------------------------------------------------------------------------
(* Accrual: GarrisonRepository.updateResources *)

\* quantity of the peasants' first harvest assignment on the building
assignedWorkers(g, building) ==
  LET pi == findUnit(g, "peasant") IN
  IF pi = 0 THEN 0
  ELSE LET as == g.units[pi].assignments
           ai == FindIndex(as, LAMBDA a : a.type = "harvest"
                                          /\ a.buildingId # NoId
                                          /\ a.buildingId = building.id)
       IN IF ai = 0 THEN 0 ELSE as[ai].quantity

\* Gained rounded to the nearest unit instead of floored
GainedRounded(amount, elapsedMs, workers) ==
  RoundDiv(amount * elapsedMs * workers, MinuteMs)

\* Math.floor((amount * elapsedMinutes) * assignedWorkers), elapsed given in ms
Gained(amount, elapsedMs, workers) ==
  FloorDiv(amount * elapsedMs * workers, MinuteMs)

\* AccrueBuilding that credits the yield and leaves the timestamp as it was
AccrueBuildingUnstamped(g, R, building, t) ==
  LET st == StaticBuilding(building.code)
      w == assignedWorkers(g, building)
  IN
  IF ~st.hasHarvest \/ Busy(building, t) \/ w = 0 THEN R
  ELSE IF building.code = "goldmine" /\ R.goldLastUpdate # NoDate THEN
    [R EXCEPT ![st.harvest.resource] =
                @ + Gained(st.harvest.amount, t - R.goldLastUpdate, w) * Cent]
  ELSE IF building.code = "sawmill" /\ R.woodLastUpdate # NoDate THEN
    [R EXCEPT ![st.harvest.resource] =
                @ + Gained(st.harvest.amount, t - R.woodLastUpdate, w) * Cent]
  ELSE R

\* one iteration of the loop over garrison.instances.buildings
AccrueBuilding(g, R, building, t) ==
  LET st == StaticBuilding(building.code)
      w == assignedWorkers(g, building)
  IN
  IF ~st.hasHarvest THEN R
  ELSE IF Busy(building, t) THEN R
  ELSE IF w = 0 THEN R
  ELSE IF building.code = "goldmine" THEN
    IF R.goldLastUpdate = NoDate THEN R
    ELSE IF t - R.goldLastUpdate = 0 THEN R
    ELSE [R EXCEPT ![st.harvest.resource] =
                       @ + Gained(st.harvest.amount, t - R.goldLastUpdate, w) * Cent,
                   !.goldLastUpdate = t]
  ELSE IF building.code = "sawmill" THEN
    IF R.woodLastUpdate = NoDate THEN R
    ELSE IF t - R.woodLastUpdate = 0 THEN R
    ELSE [R EXCEPT ![st.harvest.resource] =
                       @ + Gained(st.harvest.amount, t - R.woodLastUpdate, w) * Cent,
                   !.woodLastUpdate = t]
  ELSE R

RECURSIVE AccrueFrom(_, _, _, _)
AccrueFrom(g, R, i, t) ==
  IF i > Len(g.buildings) THEN R
  ELSE AccrueFrom(g, AccrueBuilding(g, R, g.buildings[i], t), i + 1, t)

updateResources(g, t) == [g EXCEPT !.resources = AccrueFrom(g, g.resources, 1, t)]

----------------------------------------------------------------------------
(* Checks and calculators (helper.utils.garrison.repo and their inlined      *)
(* forms in extendBuilding, addUnit, assignUnit)                            *)

Fail(status, g) == [ok |-> FALSE, status |-> status, g |-> g, paths |-> {}]
Done(g, paths) == [ok |-> TRUE, status |-> 200, g |-> g, paths |-> paths]

\* one entry of requiredEntities.buildings against the garrison's buildings;
\* atLevel is TRUE when the entry's upgradeLevel applies
UnmetRequirement(b, buildings, t, atLevel) ==
  LET ei == FindIndex(buildings, LAMBDA gB : gB.code = b.code) IN
  IF ei = 0 THEN TRUE
  ELSE
    LET existing == buildings[ei]
        ui == FindIndex(existing.constructions,
                        LAMBDA c : c.improvement.type # "none"
                                   /\ c.improvement.level >= b.upgradeLevel)
    IN
    IF b.upgradeLevel # NoValue /\ b.upgradeLevel # 0 /\ atLevel /\ ui = 0 THEN TRUE
    ELSE IF b.upgradeLevel # NoValue /\ b.upgradeLevel # 0 /\ atLevel
            /\ existing.constructions[ui].endDate > t THEN TRUE
    ELSE \E i \in 1..Len(existing.constructions) :
           /\ existing.constructions[i].improvement.type = "none"
           /\ existing.constructions[i].endDate > t

\* requirements of addBuilding, upgradeBuilding and addUnit
\* (_gH.checkConstructionRequirements; inlined in addUnit)
Unfulfilled(required, buildings, t) ==
  \E i \in 1..Len(required) : UnmetRequirement(required[i], buildings, t, TRUE)

\* requirements of extendBuilding: upgradeLevel counts at the entry's level only
UnfulfilledExtension(required, buildings, t, nextLevel) ==
  \E i \in 1..Len(required) :
    UnmetRequirement(required[i], buildings, t, required[i].level = nextLevel)

\* minimum workforce at a level: minWorkforce * Math.pow(2, level)
MinWorkforceAt(st, level) == st.minWorkforce * Pow(2, level)

\* Math.round(duration * Math.pow(1.3, level)), in seconds
DurationAt(st, level) == RoundDiv(st.duration * Pow(13, level), Pow(10, level))

\* duration * Math.pow(0.97, workforce - minWorkforce) * 1000, clipped to whole ms
NewDurationMs(st, level, workforce) ==
  LET k == workforce - MinWorkforceAt(st, level) IN
  IF k <= 0 THEN DurationAt(st, level) * SecondMs
  ELSE FloorDiv(DurationAt(st, level) * Pow(97, k) * 10, Pow(100, k - 1))

\* Math.floor(newDuration), in seconds
FlooredDuration(st, level, workforce) ==
  LET k == workforce - MinWorkforceAt(st, level) IN
  FloorDiv(DurationAt(st, level) * Pow(97, k), Pow(100, k))

\* _gH.computeConstructionDurationAndWorkforce(workforce, static, level).duration
computeConstructionDurationAndWorkforce(workforce, st, level) ==
  FlooredDuration(st, level, workforce)

\* _gH.checkBuildingImprovable(now, building, static, 'upgrade'): index of the
\* next upgrade in static.upgrades, 0 when no further upgrade is defined
checkBuildingImprovable(building, st) ==
  FindIndex(st.upgrades, LAMBDA u : u.level = CurrentLevel(building, "upgrade") + 1)

\* WorkforceStatus without the two comparisons with minWorkforce
WorkforceStatusUnranged(t, workforce, peasants, st, level) ==
  IF workforce > peasants.quantity THEN 400
  ELSE IF workforce > peasants.quantity - Unavailable(peasants, t) THEN 412
  ELSE 200

\* status of the workforce checks at a level, 200 when coherent
WorkforceStatus(t, workforce, peasants, st, level) ==
  IF workforce > peasants.quantity THEN 400
  ELSE IF workforce > peasants.quantity - Unavailable(peasants, t) THEN 412
  ELSE IF workforce < MinWorkforceAt(st, level) THEN 400
  ELSE IF workforce > MinWorkforceAt(st, level) * 2 THEN 400
  ELSE 200

\* cost of a construction at a level, in hundredths
CostAt(cost, level) ==
  [gold |-> RoundDiv(cost.gold * Pow(16, level), Pow(10, level)) * Cent,
   wood |-> RoundDiv(cost.wood * Pow(16, level), Pow(10, level)) * Cent,
   plot |-> IF level = 0 THEN cost.plot * Cent
            ELSE RoundDiv(cost.plot * Pow(15, level), 2 * Pow(10, level)) * Cent]

CanPay(R, c) == ~(R.gold - c.gold < 0 \/ R.wood - c.wood < 0 \/ R.plot - c.plot < 0)

Pay(R, c) == [R EXCEPT !.gold = @ - c.gold, !.wood = @ - c.wood, !.plot = @ - c.plot]

\* the one-time yield of a harvest building without maxWorkforce:
\* Math.floor(amount * Math.pow(1.2, level)), in hundredths
Gift(st, level) ==
  IF st.hasHarvest /\ (st.harvest.maxWorkforce = NoValue \/ st.harvest.maxWorkforce = 0)
    THEN FloorDiv(st.harvest.amount * Pow(12, level), Pow(10, level)) * Cent
    ELSE 0

\* CreditGift that credits the one-time yield a second time
CreditGiftTwice(R, st, level) ==
  IF Gift(st, level) = 0 THEN R
  ELSE [R EXCEPT ![st.harvest.resource] = @ + 2 * Gift(st, level)]

\* garrison.resources[harvest.resource] += the one-time yield
CreditGift(R, st, level) ==
  IF Gift(st, level) = 0 THEN R
  ELSE [R EXCEPT ![st.harvest.resource] = @ + Gift(st, level)]

\* _gH.checkWorkforceCoherence(now, workforce, peasants, static, type, constructions)
checkWorkforceCoherence(t, workforce, peasants, st, level) ==
  WorkforceStatus(t, workforce, peasants, st, level)

\* _gH.checkConstructionPaymentCapacity: the cost debited at a level
checkConstructionPaymentCapacity(cost, level) == CostAt(cost, level)

----------------------------------------------------------------------------
(* The operations, as functions of the loaded document, the moment and the  *)
(* payload.  The result carries the in-memory document when the operation   *)
(* throws or saves, and the paths save() writes.                            *)

\* Construction whose endDate is its beginDate
ConstructionUntimed(id, t, endDate, workforce, improvement) ==
  [id |-> id, beginDate |-> t, endDate |-> t, workforce |-> workforce,
   improvement |-> improvement]

\* Construction that carries no improvement
ConstructionPlain(id, t, endDate, workforce, improvement) ==
  [id |-> id, beginDate |-> t, endDate |-> endDate, workforce |-> workforce,
   improvement |-> NoImprovement]

Construction(id, t, endDate, workforce, improvement) ==
  [id |-> id, beginDate |-> t, endDate |-> endDate, workforce |-> workforce,
   improvement |-> improvement]

Assignment(buildingId, quantity, type, endDate) ==
  [buildingId |-> buildingId, quantity |-> quantity, type |-> type,
   endDate |-> endDate]

AllPaths == {"resources", "buildings", "units"}

addBuilding(g, t, id, code, workforce) ==
  LET st == StaticBuilding(code)
      pi == findUnit(g, "peasant")
  IN
  IF ~g.exists THEN Fail(404, g)
  ELSE IF pi = 0 THEN Fail(404, g)
  ELSE IF checkWorkforceCoherence(t, workforce, g.units[pi], st, 0) # 200
    THEN Fail(checkWorkforceCoherence(t, workforce, g.units[pi], st, 0), g)
  ELSE IF Unfulfilled(st.required, g.buildings, t) THEN Fail(412, g)
  ELSE
    LET duration == computeConstructionDurationAndWorkforce(workforce, st, 0)
        endDate == addTime(t, duration * SecondMs)
        construction == Construction(id + 1, t, endDate, workforce, NoImprovement)
        g1 == [g EXCEPT !.buildings =
                 Append(@, [id |-> id, code |-> code,
                            constructions |-> << construction >>])]
        g2 == updateResources(g1, t)
    IN
    IF ~CanPay(g2.resources, CostAt(st.cost, 0)) THEN Fail(412, g2)
    ELSE
      LET R == CreditGift(Pay(g2.resources, CostAt(st.cost, 0)), st, 0)
          g3 == [g2 EXCEPT !.resources = R,
                           !.units[pi].assignments =
                             Append(@, Assignment(id, workforce, "construction", endDate))]
      IN Done(g3, AllPaths)

\* Array.prototype.splice(aIndex, 1) where aIndex = -1 (here 0) counts from the end
SpliceFound(s, i) ==
  IF s = << >> THEN s
  ELSE IF i = 0 THEN RemoveAt(s, Len(s))
  ELSE RemoveAt(s, i)

\* delete resources[`${resource}LastUpdate`]
DeleteLastUpdate(R, resource) ==
  IF resource = "gold" THEN [R EXCEPT !.goldLastUpdate = NoDate]
  ELSE IF resource = "wood" THEN [R EXCEPT !.woodLastUpdate = NoDate]
  ELSE R

\* Refund whose gold is overwritten for an instantiation too
RefundOverwritten(cost, improvement) ==
  [gold |-> cost.plot * Cent, wood |-> cost.wood * Cent, plot |-> cost.plot * Cent]

\* the amounts handed back, in hundredths: the static instantiation cost, and
\* for an improvement the three assignments of lines 263-265, which all target
\* gold, so that gold ends as plot * decreased^level and wood, plot stay as read
Refund(cost, improvement) ==
  [gold |-> IF improvement.type # "none"
              THEN (cost.plot * Pow(DecreasedFactorTenths, improvement.level) * Cent)
                   \div Pow(10, improvement.level)
              ELSE cost.gold * Cent,
   wood |-> cost.wood * Cent,
   plot |-> cost.plot * Cent]

cancelBuildingConstruction(g, t, buildingId, constructionId) ==
  LET bIndex == findBuilding(g, buildingId) IN
  IF ~g.exists THEN Fail(404, g)
  ELSE IF bIndex = 0 THEN Fail(404, g)
  ELSE
    LET building == g.buildings[bIndex]
        st == StaticBuilding(building.code)
        cIndex == findBuildingConstruction(building, constructionId)
    IN
    IF cIndex = 0 THEN Fail(404, g)
    ELSE
      LET improvement == building.constructions[cIndex].improvement
          improved == improvement.type # "none"
          gold == Refund(st.cost, improvement).gold
          wood == Refund(st.cost, improvement).wood
          plot == Refund(st.cost, improvement).plot
          left == IF improved THEN RemoveAt(building.constructions, cIndex)
                  ELSE building.constructions
          buildings1 == IF improved
                          THEN [g.buildings EXCEPT ![bIndex].constructions = left]
                          ELSE RemoveAt(g.buildings, bIndex)
          R1 == [g.resources EXCEPT !.gold = @ + gold, !.wood = @ + wood,
                                    !.plot = @ + plot]
          stillExists == \E i \in 1..Len(buildings1) : buildings1[i].code = st.code
          \* typeof harvest.maxWorkforce is 'number' or 'undefined', never undefined
          R2 == IF st.hasHarvest /\ st.harvest.maxWorkforce # NoValue /\ stillExists
                  THEN DeleteLastUpdate(R1, st.harvest.resource)
                  ELSE R1
          pi == findUnit(g, "peasant")
      IN
      IF pi = 0 THEN Fail(404, [g EXCEPT !.buildings = buildings1, !.resources = R2])
      ELSE
        LET aIndex == IF cIndex <= Len(left)
                        THEN FindIndex(g.units[pi].assignments,
                                       LAMBDA a : a.endDate = left[cIndex].endDate)
                        ELSE 0
        IN Done([g EXCEPT !.buildings = buildings1, !.resources = R2,
                          !.units[pi].assignments = SpliceFound(@, aIndex)],
                AllPaths)

upgradeBuilding(g, t, id, buildingId, workforce) ==
  LET bIndex == findBuilding(g, buildingId) IN
  IF ~g.exists THEN Fail(404, g)
  ELSE IF bIndex = 0 THEN Fail(404, g)
  ELSE
    LET building == g.buildings[bIndex]
        st == StaticBuilding(building.code)
        ui == checkBuildingImprovable(building, st)
        pi == findUnit(g, "peasant")
    IN
    IF Busy(building, t) THEN Fail(412, g)
    ELSE IF ui = 0 THEN Fail(412, g)
    ELSE IF Unfulfilled(st.upgrades[ui].required, g.buildings, t) THEN Fail(412, g)
    ELSE IF pi = 0 THEN Fail(404, g)
    ELSE
      LET level == st.upgrades[ui].level
          status == checkWorkforceCoherence(t, workforce, g.units[pi], st, level)
      IN
      IF status # 200 THEN Fail(status, g)
      ELSE
        LET duration == computeConstructionDurationAndWorkforce(workforce, st, level)
            endDate == addTime(t, duration * SecondMs)
            construction == Construction(id, t, endDate, workforce,
                                         [type |-> "upgrade", level |-> level])
            g1 == [g EXCEPT !.buildings[bIndex].constructions = Append(@, construction)]
            g2 == updateResources(g1, t)
            cost == checkConstructionPaymentCapacity(st.cost, level)
        IN
        IF ~CanPay(g2.resources, cost) THEN Fail(412, g2)
        ELSE
          LET R == CreditGift(Pay(g2.resources, cost), st, level)
          IN Done([g2 EXCEPT !.resources = R,
                             !.units[pi].assignments =
                               Append(@, Assignment(buildingId, workforce,
                                                    "construction", endDate))],
                  AllPaths)

extendBuilding(g, t, id, buildingId, workforce) ==
  LET bIndex == findBuilding(g, buildingId) IN
  IF ~g.exists THEN Fail(404, g)
  ELSE IF bIndex = 0 THEN Fail(404, g)
  ELSE
    LET garrBuilding == g.buildings[bIndex]
        building == StaticBuilding(garrBuilding.code)
        currentLevel == CurrentLevel(garrBuilding, "extension")
        pi == findUnit(g, "peasant")
    IN
    IF ~building.hasExtension THEN Fail(412, g)
    ELSE IF Busy(garrBuilding, t) THEN Fail(412, g)
    ELSE IF currentLevel + 1 > building.extension.maxLevel THEN Fail(400, g)
    ELSE IF UnfulfilledExtension(building.extension.required, g.buildings, t,
                                 currentLevel + 1) THEN Fail(412, g)
    ELSE IF pi = 0 THEN Fail(404, g)
    ELSE IF WorkforceStatus(t, workforce, g.units[pi], building, currentLevel + 1) # 200
      THEN Fail(WorkforceStatus(t, workforce, g.units[pi], building, currentLevel + 1), g)
    ELSE
      LET endDate == addTime(t, NewDurationMs(building, currentLevel + 1, workforce))
          constructed == Construction(id, t, endDate, workforce,
                                      [type |-> "extension", level |-> currentLevel + 1])
          \* every building of the same code receives the construction
          g1 == [g EXCEPT !.buildings =
                   [i \in 1..Len(g.buildings) |->
                      IF g.buildings[i].code = building.code
                        THEN [g.buildings[i] EXCEPT !.constructions =
                                                       Append(@, constructed)]
                        ELSE g.buildings[i]]]
          cost == CostAt(building.cost, currentLevel + 1)
      IN
      IF ~CanPay(g1.resources, cost) THEN Fail(412, g1)
      ELSE
        LET R == CreditGift(Pay(g1.resources, cost), building, currentLevel + 1)
        IN Done([g1 EXCEPT !.resources = R,
                           !.units[pi].assignments =
                             Append(@, Assignment(buildingId, workforce,
                                                  "construction", endDate))],
                AllPaths)

\* TrainingAssignments with every endDate chained off the moment of the request
TrainingUnchained(t, duration, quantity) ==
  [i \in 1..quantity |->
     Assignment(NoId, 1, "instantiation", addTime(t, duration * SecondMs))]

\* the batch of 'instantiation' assignments, each chained off the previous one
TrainingAssignments(t, duration, quantity) ==
  [i \in 1..quantity |->
     Assignment(NoId, 1, "instantiation", addTime(t, i * duration * SecondMs))]

\* CanTrain without the comparison of food
CanTrainFoodless(R, goldCost, woodCost, foodCost) ==
  ~(R.gold - goldCost < 0 \/ R.wood - woodCost < 0)

\* the resources cover the cost of the batch (lines 672-675)
CanTrain(R, goldCost, woodCost, foodCost) ==
  ~(R.gold - goldCost < 0 \/ R.wood - woodCost < 0 \/ R.food - foodCost < 0)

addUnit(g, t, code, quantity) ==
  LET unit == StaticUnit(code) IN
  IF ~g.exists THEN Fail(404, g)
  ELSE IF code \notin UnitCodes THEN Fail(404, g)
  ELSE IF Unfulfilled(unit.required, g.buildings, t) THEN Fail(412, g)
  ELSE
    LET assignments == TrainingAssignments(t, unit.duration, quantity)
        index == findUnit(g, code)
        g1 == IF index = 0
                THEN [g EXCEPT !.units =
                        Append(@, [code |-> code, quantity |-> quantity,
                                   assignments |-> assignments])]
                ELSE [g EXCEPT !.units[index].quantity = @ + quantity,
                               !.units[index].assignments = @ \o assignments]
        g2 == updateResources(g1, t)
        goldCost == unit.cost.gold * quantity * Cent
        woodCost == unit.cost.wood * quantity * Cent
        foodCost == unit.cost.food * quantity * Cent
    IN
    IF ~CanTrain(g2.resources, goldCost, woodCost, foodCost)
      THEN Fail(412, g2)
      ELSE Done([g2 EXCEPT !.resources.gold = @ - goldCost,
                           !.resources.wood = @ - woodCost,
                           !.resources.food = @ - foodCost],
                {"units", "resources"})

\* AccrueForUnit that leaves the yield uncredited
AccrueForUnitSkipped(g, t, code) == g

\* if (unit.code === 'peasant') garrison.resources = updateResources(garrison).resources,
\* ahead of the change of the assignment
AccrueForUnit(g, t, code) == IF code = "peasant" THEN updateResources(g, t) ELSE g

\* HarvestIndex that finds no record
HarvestIndexNone(unit, buildingId) == 0

\* the unit's first 'harvest' assignment on the building, 0 when none
HarvestIndex(unit, buildingId) ==
  FindIndex(unit.assignments,
            LAMBDA a : a.buildingId # NoId /\ a.buildingId = buildingId
                       /\ a.type = "harvest")

assignUnit(g, t, buildingId, code, quantity) ==
  LET bIndex == findBuilding(g, buildingId)
      ui == findUnit(g, code)
  IN
  IF ~g.exists THEN Fail(404, g)
  ELSE IF bIndex = 0 THEN Fail(404, g)
  ELSE IF ~StaticBuilding(g.buildings[bIndex].code).hasHarvest THEN Fail(400, g)
  ELSE IF code \notin UnitCodes THEN Fail(404, g)
  ELSE IF ui = 0 THEN Fail(404, g)
  ELSE IF quantity > g.units[ui].quantity THEN Fail(412, g)
  ELSE IF Busy(g.buildings[bIndex], t) THEN Fail(412, g)
  ELSE IF quantity > g.units[ui].quantity - Unavailable(g.units[ui], t) THEN Fail(412, g)
  ELSE
    LET garrBuilding == g.buildings[bIndex]
        g1 == AccrueForUnit(g, t, code)
        index == HarvestIndex(g1.units[ui], buildingId)
        g2 == IF index = 0
                THEN [g1 EXCEPT !.units[ui].assignments =
                        Append(@, Assignment(buildingId, quantity, "harvest",
                                             HarvestEndDate))]
                ELSE [g1 EXCEPT !.units[ui].assignments[index].quantity = @ + quantity]
        initGold == garrBuilding.code = "goldmine"
                    /\ g2.resources.goldLastUpdate = NoDate
        initWood == garrBuilding.code = "sawmill"
                    /\ g2.resources.woodLastUpdate = NoDate
        g3 == IF initGold THEN [g2 EXCEPT !.resources.goldLastUpdate = t]
              ELSE IF initWood THEN [g2 EXCEPT !.resources.woodLastUpdate = t]
              ELSE g2
    IN Done(g3, {"units"} \cup
                (IF code = "peasant" \/ initGold \/ initWood THEN {"resources"} ELSE {}))

\* some 'harvest' assignment of the unit sits on a garrison building of the code
HasActiveWorker(unit, buildings, code) ==
  \E i \in 1..Len(unit.assignments) :
    /\ unit.assignments[i].type = "harvest"
    /\ \E j \in 1..Len(buildings) :
         buildings[j].id = unit.assignments[i].buildingId /\ buildings[j].code = code

unassignUnit(g, t, buildingId, code, quantity) ==
  LET bIndex == findBuilding(g, buildingId)
      ui == findUnit(g, code)
  IN
  IF ~g.exists THEN Fail(404, g)
  ELSE IF bIndex = 0 THEN Fail(404, g)
  ELSE IF ~StaticBuilding(g.buildings[bIndex].code).hasHarvest THEN Fail(400, g)
  ELSE IF code \notin UnitCodes THEN Fail(404, g)
  ELSE IF ui = 0 THEN Fail(404, g)
  ELSE IF HarvestIndex(g.units[ui], buildingId) = 0 THEN Fail(404, g)
  ELSE IF g.units[ui].assignments[HarvestIndex(g.units[ui], buildingId)].quantity
          < quantity THEN Fail(412, g)
  ELSE
    LET bcode == g.buildings[bIndex].code
        index == HarvestIndex(g.units[ui], buildingId)
        g1 == AccrueForUnit(g, t, code)
        g2 == IF g1.units[ui].assignments[index].quantity - quantity = 0
                THEN [g1 EXCEPT !.units[ui].assignments = RemoveAt(@, index)]
                ELSE [g1 EXCEPT !.units[ui].assignments[index].quantity = @ - quantity]
        noActiveworker == ~HasActiveWorker(g2.units[ui], g2.buildings, bcode)
        g3 == IF bcode = "goldmine" /\ noActiveworker
                THEN [g2 EXCEPT !.resources.goldLastUpdate = NoDate]
              ELSE IF bcode = "sawmill" /\ noActiveworker
                THEN [g2 EXCEPT !.resources.woodLastUpdate = NoDate]
              ELSE g2
    IN Done(g3, {"units", "resources"})

----------------------------------------------------------------------------
(* Storage: findById loads the stored document, save() writes the paths     *)
(* the operation assigned or marked modified                                *)

\* findById that answers an unknown id with a new garrison
findByIdAnswering(stored) == IF stored.exists THEN stored ELSE create

findById(stored) == stored

save(stored, g, paths) ==
  [stored EXCEPT !.resources = IF "resources" \in paths THEN g.resources ELSE @,
                 !.buildings = IF "buildings" \in paths THEN g.buildings ELSE @,
                 !.units = IF "units" \in paths THEN g.units ELSE @]

----------------------------------------------------------------------------
(* Requests served one after another *)

Procs == {1, 2}

Req(op, bid, cid, code, n) ==
  [op |-> op, ok |-> TRUE, status |-> 200, bid |-> bid, cid |-> cid,
   code |-> code, n |-> n]

Idle == [pc |-> "idle", req |-> Req("none", NoId, NoId, "none", 0), g |-> NoGarrison,
         t |-> 0]

BuildingIds(g) == {g.buildings[i].id : i \in 1..Len(g.buildings)} \cup {NoId}

ConstructionIds(g, bid) ==
  LET bi == findBuilding(g, bid) IN
  IF bi = 0 THEN {NoId}
  ELSE {g.buildings[bi].constructions[i].id :
          i \in 1..Len(g.buildings[bi].constructions)} \cup {NoId}

\* the garrison the requests address
Served == 1

\* what the collection tells of a stored garrison apart from its document
Stored(id, characterId, name) == [id |-> id, characterId |-> characterId, name |-> name]

\* the collection holding the served garrison alone
Founded == << Stored(Served, 1, "a") >>

\* Starting points: the garrison as created, and two later stages of the same
\* garrison, each the saved result of the operations that lead to it
Fresh == [now |-> 0, db |-> create, nextId |-> 1]

\* addBuilding('goldmine', 1) at 0, seen when the construction has ended
MineBuilt ==
  [now |-> 2 * TickMs,
   db |-> save(create, addBuilding(create, 0, 1, "goldmine", 1).g, AllPaths),
   nextId |-> 3]

\* then assignUnit(goldmine, 'peasant', 1) at that moment
MineHarvested ==
  [now |-> MineBuilt.now,
   db |-> save(MineBuilt.db,
               assignUnit(MineBuilt.db, MineBuilt.now, 1, "peasant", 1).g, AllPaths),
   nextId |-> 3]

Stages == {Fresh, MineBuilt, MineHarvested}

Init ==
  \E s \in Stages :
    /\ now = s.now
    /\ db = s.db
    /\ nextId = s.nextId
    /\ ticks = 0
    /\ served = 0
    /\ last = Req("create", NoId, NoId, "none", 0)
    /\ prev = NoGarrison
    /\ sess = [p \in Procs |-> Idle]
    /\ coll = Founded

\* A rejected request and a read leave the document and the clock as they were:
\* what may follow them is what may follow the state they were made in, and is
\* explored from there; what holds of the document and the clock alone is
\* stated of the settled states, which hold every document and clock reached
Settled == last.ok /\ last.op # "findById"

\* Serve with the save ahead of the outcome of the checks
ServeSavingFirst(r, req, ids) ==
  /\ Settled
  /\ served < MaxOps
  /\ last' = IF r.ok THEN req
             ELSE [Req(req.op, req.bid, NoId, "none", 0)
                     EXCEPT !.ok = FALSE, !.status = r.status]
  /\ prev' = db
  /\ db' = save(db, r.g, AllPaths)
  /\ nextId' = IF r.ok THEN nextId + ids ELSE nextId
  /\ served' = IF r.ok THEN served + 1 ELSE served
  /\ UNCHANGED <<now, ticks, sess, coll>>

\* The request runs from its load to its save with no other request between:
\* the operation saves, or it throws and nothing is saved
Serve(r, req, ids) ==
  /\ Settled
  /\ served < MaxOps
  /\ last' = IF r.ok THEN req
              ELSE [Req(req.op, req.bid, NoId, "none", 0) EXCEPT !.ok = FALSE, !.status = r.status]
  /\ prev' = db
  /\ db' = IF r.ok THEN save(db, r.g, r.paths) ELSE db
  /\ nextId' = IF r.ok THEN nextId + ids ELSE nextId
  /\ served' = IF r.ok THEN served + 1 ELSE served
  /\ UNCHANGED <<now, ticks, sess, coll>>

Tick ==
  /\ Settled
  /\ ticks < MaxTicks
  /\ ticks' = ticks + 1
  /\ now' = now + TickMs
  /\ last' = Req("tick", NoId, NoId, "none", 0)
  /\ prev' = db
  /\ UNCHANGED <<db, nextId, served, sess, coll>>

\* findById / getFromUser / getFromCharacter answer with the stored document
Read ==
  /\ Settled
  /\ last' = Req("findById", NoId, NoId, "none", 0)
  /\ prev' = db
  /\ UNCHANGED <<now, db, nextId, ticks, served, sess, coll>>

AddBuilding ==
  \E code \in BuildingCodes, workforce \in 1..MaxWorkforce :
    /\ Len(db.buildings) < MaxBuildings
    /\ Serve(addBuilding(findById(db), now, nextId, code, workforce),
               Req("addBuilding", nextId, nextId + 1, code, workforce), 2)

CancelBuildingConstruction ==
  \E bid \in BuildingIds(db) : \E cid \in ConstructionIds(db, bid) :
    Serve(cancelBuildingConstruction(findById(db), now, bid, cid),
            Req("cancelBuildingConstruction", bid, cid, "none", 0), 0)

UpgradeBuilding ==
  \E bid \in BuildingIds(db), workforce \in 1..MaxWorkforce :
    Serve(upgradeBuilding(findById(db), now, nextId, bid, workforce),
            Req("upgradeBuilding", bid, nextId, "none", workforce), 1)

ExtendBuilding ==
  \E bid \in BuildingIds(db), workforce \in 1..MaxWorkforce :
    Serve(extendBuilding(findById(db), now, nextId, bid, workforce),
            Req("extendBuilding", bid, nextId, "none", workforce), 1)

AddUnit ==
  \E code \in UnitCodes, quantity \in 1..MaxQuantity :
    Serve(addUnit(findById(db), now, code, quantity),
            Req("addUnit", NoId, NoId, code, quantity), 0)

AssignUnit ==
  \E bid \in BuildingIds(db), code \in UnitCodes, quantity \in 1..MaxQuantity :
    Serve(assignUnit(findById(db), now, bid, code, quantity),
            Req("assignUnit", bid, NoId, code, quantity), 0)

UnassignUnit ==
  \E bid \in BuildingIds(db), code \in UnitCodes, quantity \in 1..MaxQuantity :
    Serve(unassignUnit(findById(db), now, bid, code, quantity),
            Req("unassignUnit", bid, NoId, code, quantity), 0)

Next ==
  \/ Tick
  \/ Read
  \/ AddBuilding
  \/ CancelBuildingConstruction
  \/ UpgradeBuilding
  \/ ExtendBuilding
  \/ AddUnit
  \/ AssignUnit
  \/ UnassignUnit

Spec == Init /\ [][Next]_vars

\* Later stages of the same garrison, reached by more requests than one
\* behaviour of Spec serves: the requests served from them are those of Next

\* MineHarvested, then addUnit('militia', 1) at that moment, seen when the
\* training has ended
MilitiaTrained ==
  CHOOSE s \in {[now |-> h.now + 2 * TickMs,
                 db |-> save(h.db, addUnit(h.db, h.now, "militia", 1).g, AllPaths),
                 nextId |-> 3] : h \in {MineHarvested}} : TRUE

\* MineBuilt, then upgradeBuilding(goldmine, 2) at that moment
MineUpgrading ==
  CHOOSE s \in {[now |-> b.now,
                 db |-> save(b.db, upgradeBuilding(b.db, b.now, 3, 1, 2).g, AllPaths),
                 nextId |-> 4] : b \in {MineBuilt}} : TRUE

\* addBuilding('goldmine', 1) then addBuilding('goldmine', 2) at 0, seen at
\* 59 s: the second goldmine, built by two peasants, has ended and the first,
\* built by one, has not
TwoMines ==
  [now |-> 59 * SecondMs,
   db |-> CHOOSE g \in {save(first, addBuilding(first, 0, 3, "goldmine", 2).g,
                             AllPaths) : first \in {MineBuilt.db}} : TRUE,
   nextId |-> 5]

LateStages == {MilitiaTrained, MineUpgrading, TwoMines}

InitLate ==
  \E s \in LateStages :
    /\ now = s.now
    /\ db = s.db
    /\ nextId = s.nextId
    /\ ticks = 0
    /\ served = 0
    /\ last = Req("create", NoId, NoId, "none", 0)
    /\ prev = NoGarrison
    /\ sess = [p \in Procs |-> Idle]
    /\ coll = Founded

SpecLate == InitLate /\ [][Next]_vars

\* MineBuilt, then extendBuilding(goldmine, 2) at that moment, seen when the
\* extension has ended
MineExtended ==
  CHOOSE s \in {[now |-> b.now + 3 * TickMs,
                 db |-> save(b.db, extendBuilding(b.db, b.now, 3, 1, 2).g, AllPaths),
                 nextId |-> 4] : b \in {MineBuilt}} : TRUE

InitExtended ==
  /\ now = MineExtended.now
  /\ db = MineExtended.db
  /\ nextId = MineExtended.nextId
  /\ ticks = 0
  /\ served = 0
  /\ last = Req("create", NoId, NoId, "none", 0)
  /\ prev = NoGarrison
  /\ sess = [p \in Procs |-> Idle]
  /\ coll = Founded

SpecExtended == InitExtended /\ [][Next]_vars

----------------------------------------------------------------------------
(* Requests in flight together: a request loads the document (findById),   *)
(* computes on what it loaded, and saves later; another request may load   *)
(* or save in between.  Each process carries one request.                  *)

\* the operation a request names, on a loaded document
Apply(g, t, req) ==
  CASE req.op = "addBuilding" -> addBuilding(g, t, req.bid, req.code, req.n)
    [] req.op = "cancelBuildingConstruction" ->
         cancelBuildingConstruction(g, t, req.bid, req.cid)
    [] req.op = "upgradeBuilding" -> upgradeBuilding(g, t, req.cid, req.bid, req.n)
    [] req.op = "extendBuilding" -> extendBuilding(g, t, req.cid, req.bid, req.n)
    [] req.op = "addUnit" -> addUnit(g, t, req.code, req.n)
    [] req.op = "assignUnit" -> assignUnit(g, t, req.bid, req.code, req.n)
    [] OTHER -> unassignUnit(g, t, req.bid, req.code, req.n)

\* ObjectIds a request draws
IdsOf(req) ==
  IF req.op = "addBuilding" THEN 2
  ELSE IF req.op \in {"upgradeBuilding", "extendBuilding"} THEN 1
  ELSE 0

\* the payloads a request may carry against the stored document
Requests(g, id) ==
  {Req("addBuilding", id, id + 1, code, w) :
     code \in {c \in BuildingCodes : Len(g.buildings) < MaxBuildings},
     w \in 1..MaxWorkforce}
  \cup UNION {{Req("cancelBuildingConstruction", bid, cid, "none", 0) :
                 cid \in ConstructionIds(g, bid)} : bid \in BuildingIds(g)}
  \cup {Req(op, bid, id, "none", w) :
          op \in {"upgradeBuilding", "extendBuilding"},
          bid \in BuildingIds(g), w \in 1..MaxWorkforce}
  \cup {Req("addUnit", NoId, NoId, code, n) :
          code \in UnitCodes, n \in 1..MaxQuantity}
  \cup {Req(op, bid, NoId, code, n) :
          op \in {"assignUnit", "unassignUnit"},
          bid \in BuildingIds(g), code \in UnitCodes, n \in 1..MaxQuantity}

InFlight(pc, req, g, t) == [pc |-> pc, req |-> req, g |-> g, t |-> t]

\* findById, then the checks and the computation up to the save.  A request
\* that throws saves nothing and leaves no trace: only the requests that pass
\* their checks stay in flight, holding the document they loaded.  Processes
\* are interchangeable: they take their requests in the order of their numbers
Begin(p) ==
  /\ sess[p].pc = "idle"
  /\ \A q \in Procs : q < p => sess[q].pc # "idle"
  /\ \E req \in Requests(db, nextId) :
       /\ Apply(findById(db), now, req).ok
       /\ sess' = [sess EXCEPT ![p] = InFlight("computed", req, db, now)]
       /\ nextId' = nextId + IdsOf(req)
  /\ prev' = IF \A q \in Procs : sess[q].pc = "idle" THEN db ELSE prev
  /\ UNCHANGED <<now, db, ticks, served, last, coll>>

\* garrison.save(): the paths of the document the request computed are written
Commit(p) ==
  /\ sess[p].pc = "computed"
  /\ \E r \in {Apply(sess[p].g, sess[p].t, sess[p].req)} :
       db' = save(db, r.g, r.paths)
  /\ sess' = [sess EXCEPT ![p].pc = "saved"]
  /\ served' = served + 1
  /\ last' = sess[p].req
  /\ UNCHANGED <<now, nextId, ticks, prev, coll>>

\* a clock step is long against the time a request spends between its load and
\* its save: it passes while no request is in flight
Elapse ==
  /\ \A p \in Procs : sess[p].pc # "computed"
  /\ ticks < MaxTicks
  /\ ticks' = ticks + 1
  /\ now' = now + TickMs
  /\ UNCHANGED <<db, nextId, served, last, prev, sess, coll>>

NextConc ==
  \/ Elapse
  \/ \E p \in Procs : Begin(p)
  \/ \E p \in Procs : Commit(p)

SpecConc == Init /\ [][NextConc]_vars

----------------------------------------------------------------------------
(* The collection: create stores garrisons under fresh ids, and the        *)
(* requests address the id Served, stored or not                           *)

Characters == {1, 2}
Names == {"a", "b"}
Zones == {"plain", "marsh"}
GarrisonIds == 1..MaxGarrisons

\* zone.side of the static zone and character.side.faction of the character
Side(zone) == IF zone = "plain" THEN "north" ELSE "south"
Faction(characterId) == IF characterId = 1 THEN "north" ELSE "south"

\* _h.areSameString
areSameString(a, b) == a = b

\* _model.findOne({ characterId }): the first stored garrison of the
\* character, 0 when it has none
getFromCharacter(c, characterId) ==
  FindIndex(c, LAMBDA e : e.characterId = characterId)

\* the checks of GarrisonRepository.create: 409, 400, or 200 when it stores
CreateStatus(c, characterId, name, zone) ==
  LET characterGarrison == getFromCharacter(c, characterId) IN
  IF characterGarrison # 0 /\ areSameString(c[characterGarrison].name, name) THEN 409
  ELSE IF ~areSameString(Side(zone), Faction(characterId)) THEN 400
  ELSE 200

\* create(payload): the new garrison gets an id no stored garrison has; the
\* request record keeps the id, the name and the character
Create ==
  \E id \in GarrisonIds, characterId \in Characters, name \in Names, zone \in Zones :
    LET status == CreateStatus(coll, characterId, name, zone) IN
    /\ Settled
    /\ served < MaxOps
    /\ Len(coll) < MaxGarrisons
    /\ \A i \in 1..Len(coll) : coll[i].id # id
    /\ last' = IF status = 200 THEN Req("create", id, NoId, name, characterId)
               ELSE [Req("create", NoId, NoId, "none", 0)
                       EXCEPT !.ok = FALSE, !.status = status]
    /\ prev' = db
    /\ coll' = IF status = 200 THEN Append(coll, Stored(id, characterId, name)) ELSE coll
    /\ db' = IF status = 200 /\ id = Served THEN create ELSE db
    /\ served' = IF status = 200 THEN served + 1 ELSE served
    /\ UNCHANGED <<now, nextId, ticks, sess>>

InitStore ==
  /\ now = 0
  /\ db = NoGarrison
  /\ nextId = 1
  /\ ticks = 0
  /\ served = 0
  /\ last = Req("none", NoId, NoId, "none", 0)
  /\ prev = NoGarrison
  /\ sess = [p \in Procs |-> Idle]
  /\ coll = << >>

NextStore ==
  \/ Create
  \/ Next

SpecStore == InitStore /\ [][NextStore]_vars

----------------------------------------------------------------------------
(* Properties *)

Unexpired(building) ==
  \E j \in 1..Len(building.constructions) : building.constructions[j].endDate > now

\* C1: in every state reached from the created garrison by any sequence of
\* addBuilding, cancelBuildingConstruction, upgradeBuilding, extendBuilding,
\* addUnit, assignUnit and unassignUnit, saved or rejected, each of gold, wood,
\* food and plot is >= 0
C1_ResourcesNeverNegative ==
  /\ db.resources.gold >= 0
  /\ db.resources.wood >= 0
  /\ db.resources.food >= 0
  /\ db.resources.plot >= 0

\* a training has spent the last food, and a further one has been refused
C1_FoodSpent ==
  /\ db.resources.food = 0
  /\ last.op = "addUnit"
  /\ last.ok
  /\ prev.resources.food > 0

Other(p) == CHOOSE q \in Procs : q # p

BothSaved == \A p \in Procs : sess[p].pc = "saved"

\* what is persisted after the request of a, then the request of b, each run
\* whole on what the one before it left, starting from the document the first
\* found; a request that throws saves nothing
SerialOutcome(a, b) ==
  LET ra == Apply(prev, sess[a].t, sess[a].req)
      ga == IF ra.ok THEN save(prev, ra.g, ra.paths) ELSE prev
      rb == Apply(ga, sess[b].t, sess[b].req)
  IN IF rb.ok THEN save(ga, rb.g, rb.paths) ELSE ga

\* C2: when the loads and saves of two mutating requests on the garrison
\* interleave, the persisted garrison after both is the one some serial order of
\* the two leaves: no debit, construction or assignment of a request that
\* succeeded is lost
C2_InterleavingIsSerial ==
  BothSaved => \E a \in Procs : db = SerialOutcome(a, Other(a))

\* C3: of two upgradeBuilding / extendBuilding requests for the same idle
\* building that both load the garrison before either saves (they hold the same
\* loaded document), at most one succeeds
C3_OneImprovementAtATime ==
  ~ /\ BothSaved
    /\ \A p \in Procs : sess[p].req.op \in {"upgradeBuilding", "extendBuilding"}
    /\ sess[1].req.bid = sess[2].req.bid
    /\ sess[1].g = sess[2].g

C5_FailureSavesNothing ==
  ~last.ok => db = prev

\* a training has been refused for its cost, after the unit and the accrued
\* resources were changed in memory: the garrison meets the requirements of
\* every unit and affords every training but that of two militia
C5_TrainingRefused ==
  /\ ~last.ok
  /\ last.op = "addUnit"
  /\ last.status = 412
  /\ \A code \in UnitCodes : ~Unfulfilled(StaticUnit(code).required, db.buildings, now)
  /\ db.resources.food = 3 * Cent
  /\ db.resources.gold >= 200 * Cent
  /\ db.resources.wood >= 100 * Cent

\* some unit holds a harvest assignment on a building of the garrison that
\* produces the resource
HarvestedBy(resource) ==
  \E u \in 1..Len(db.units) : \E a \in 1..Len(db.units[u].assignments) :
    /\ db.units[u].assignments[a].type = "harvest"
    /\ \E i \in 1..Len(db.buildings) :
         /\ db.buildings[i].id = db.units[u].assignments[a].buildingId
         /\ StaticBuilding(db.buildings[i].code).hasHarvest
         /\ StaticBuilding(db.buildings[i].code).harvest.resource = resource

\* C6: in every reachable state goldLastUpdate (woodLastUpdate) is present if
\* and only if some unit holds a harvest assignment on a building that produces
\* gold (wood)
C6_LastUpdateIffHarvested ==
  /\ (db.resources.goldLastUpdate # NoDate) <=> HarvestedBy("gold")
  /\ (db.resources.woodLastUpdate # NoDate) <=> HarvestedBy("wood")

\* an idle goldmine of the garrison with two peasants harvesting on it
TwoOnGoldmine ==
  /\ db.resources.goldLastUpdate # NoDate
  /\ \E i \in 1..Len(db.buildings) :
       /\ db.buildings[i].code = "goldmine"
       /\ ~Unexpired(db.buildings[i])
       /\ assignedWorkers(db, db.buildings[i]) = 2

\* C7: a read of the garrison runs accrual: with 2 peasants harvesting on a
\* completed goldmine and the time now - goldLastUpdate elapsed, the garrison
\* the query returns has gold raised by floor(amount x minutes x 2) and
\* goldLastUpdate set to the time of the query
C7_ReadRunsAccrual ==
  (last.op = "findById" /\ TwoOnGoldmine) =>
    /\ findById(db).resources.gold =
         db.resources.gold
         + Gained(StaticBuilding("goldmine").harvest.amount,
                  now - db.resources.goldLastUpdate, 2) * Cent
    /\ findById(db).resources.goldLastUpdate = now

\* the assignments of the unit of a code in a document, << >> when it has none
AssignmentsOf(g, code) ==
  IF findUnit(g, code) = 0 THEN << >> ELSE g.units[findUnit(g, code)].assignments

QuantityOf(g, code) ==
  IF findUnit(g, code) = 0 THEN 0 ELSE g.units[findUnit(g, code)].quantity

\* C8: a successful addBuilding(code, workforce) at time now takes exactly the
\* static instantiation cost (gold, wood, plot) from the accrued resources,
\* appends one building with exactly one non-improvement construction whose
\* endDate is now + the duration computed for the workforce, and appends exactly
\* one 'construction' assignment of the peasants with quantity = workforce and
\* the same endDate; from the created garrison (625/320/3/32, 3 peasants) a
\* goldmine (100/50/5) with workforce 2 leaves 525/270/27
C8_AddBuildingEffect ==
  (last.op = "addBuilding" /\ last.ok) =>
    LET st == StaticBuilding(last.code)
        accrued == updateResources(prev, now).resources
        endDate == now + computeConstructionDurationAndWorkforce(last.n, st, 0)
                         * SecondMs
    IN
    /\ db.resources.gold = accrued.gold - st.cost.gold * Cent
    /\ db.resources.wood = accrued.wood - st.cost.wood * Cent
    /\ db.resources.plot = prev.resources.plot - st.cost.plot * Cent
    /\ Len(db.buildings) = Len(prev.buildings) + 1
    /\ SubSeq(db.buildings, 1, Len(prev.buildings)) = prev.buildings
    /\ db.buildings[Len(db.buildings)].id = last.bid
    /\ db.buildings[Len(db.buildings)].code = last.code
    /\ Len(db.buildings[Len(db.buildings)].constructions) = 1
    /\ db.buildings[Len(db.buildings)].constructions[1].improvement = NoImprovement
    /\ db.buildings[Len(db.buildings)].constructions[1].beginDate = now
    /\ db.buildings[Len(db.buildings)].constructions[1].endDate = endDate
    /\ endDate > now
    /\ AssignmentsOf(db, "peasant") =
         Append(AssignmentsOf(prev, "peasant"),
                Assignment(last.bid, last.n, "construction", endDate))
    /\ (prev = create /\ last.code = "goldmine" /\ last.n = 2) =>
         /\ db.resources.gold = 525 * Cent
         /\ db.resources.wood = 270 * Cent
         /\ db.resources.plot = 27 * Cent
         /\ db.resources.food = 3 * Cent

\* the goldmine of the scenario has been added to the created garrison
C8_GoldmineAdded ==
  /\ last.op = "addBuilding"
  /\ last.ok
  /\ last.code = "goldmine"
  /\ last.n = 2
  /\ prev = create

\* the 'instantiation' assignments of a unit
TrainingOf(unit) ==
  SelectSeq(unit.assignments, LAMBDA a : a.type = "instantiation")

\* the unit's trainings are one batch: quantity 1 each, endDates one duration
\* apart, the first one duration after the start of the batch
BatchStart(unit) ==
  TrainingOf(unit)[1].endDate - StaticUnit(unit.code).duration * SecondMs

OneBatch(unit) ==
  /\ TrainingOf(unit) # << >>
  /\ \A i \in 1..Len(TrainingOf(unit)) :
       /\ TrainingOf(unit)[i].quantity = 1
       /\ TrainingOf(unit)[i].endDate =
            BatchStart(unit) + i * StaticUnit(unit.code).duration * SecondMs

\* units of the batch that the availability formula of the operations counts
\* as idle at the moment t: the batch less its unexpired assignments
IdleOfBatch(unit, t) ==
  Len(TrainingOf(unit))
  - Unavailable([unit EXCEPT !.assignments = TrainingOf(unit)], t)

\* addUnit of N units at time now appends N 'instantiation' assignments of
\* quantity 1 ending at now + d, ..., now + N x d and raises the quantity by N
TrainingAppended ==
  (last.op = "addUnit" /\ last.ok) =>
    /\ QuantityOf(db, last.code) = QuantityOf(prev, last.code) + last.n
    /\ AssignmentsOf(db, last.code) =
         AssignmentsOf(prev, last.code)
         \o [i \in 1..last.n |->
               Assignment(NoId, 1, "instantiation",
                          now + i * StaticUnit(last.code).duration * SecondMs)]

\* C9, as the operations have it: addUnit of N units with per-unit duration d
\* at time now creates N 'instantiation' assignments of quantity 1 ending at
\* now + d, ..., now + N x d and raises the quantity by N at once; at a time t
\* the idle units of the batch are those whose own endDate is <= t: none before
\* now + d, and all N only from now + N x d
C9_UnitIdleAfterOwnEndDate ==
  /\ TrainingAppended
  /\ \A u \in 1..Len(db.units) :
       OneBatch(db.units[u]) =>
         IdleOfBatch(db.units[u], now) =
           Cardinality({i \in 1..Len(TrainingOf(db.units[u])) :
                          BatchStart(db.units[u])
                          + i * StaticUnit(db.units[u].code).duration * SecondMs
                            <= now})

\* a batch of two, one duration after its start: one unit idle, one in training
C9_HalfTrained ==
  \E u \in 1..Len(db.units) :
    /\ OneBatch(db.units[u])
    /\ Len(TrainingOf(db.units[u])) = 2
    /\ now >= TrainingOf(db.units[u])[1].endDate
    /\ now < TrainingOf(db.units[u])[2].endDate
    /\ IdleOfBatch(db.units[u], now) = 1

\* C9, as stated: the same assignments and quantity, and no unit of the batch
\* idle at any time before now + N x d
C9_NoneIdleBeforeBoundary ==
  /\ TrainingAppended
  /\ \A u \in 1..Len(db.units) :
       (/\ OneBatch(db.units[u])
        /\ now < TrainingOf(db.units[u])[Len(TrainingOf(db.units[u]))].endDate)
         => IdleOfBatch(db.units[u], now) = 0

\* C10: cancelBuildingConstruction of the instantiation construction of a
\* building removes the building from the garrison and adds back exactly the
\* static instantiation cost (gold, wood, plot) that addBuilding took
C10_CancelInstantiationRefunds ==
  (/\ last.op = "cancelBuildingConstruction"
   /\ last.ok
   /\ findBuilding(prev, last.bid) # 0) =>
    LET b == prev.buildings[findBuilding(prev, last.bid)]
        c == b.constructions[findBuildingConstruction(b, last.cid)]
        cost == CostAt(StaticBuilding(b.code).cost, 0)
    IN
    c.improvement = NoImprovement =>
      /\ findBuilding(db, last.bid) = 0
      /\ db.buildings = RemoveAt(prev.buildings, findBuilding(prev, last.bid))
      /\ db.resources.gold = prev.resources.gold + cost.gold
      /\ db.resources.wood = prev.resources.wood + cost.wood
      /\ db.resources.plot = prev.resources.plot + cost.plot

\* the construction of a building has been cancelled and the building is gone
C10_BuildingCancelled ==
  /\ last.op = "cancelBuildingConstruction"
  /\ last.ok
  /\ findBuilding(prev, last.bid) # 0
  /\ findBuilding(db, last.bid) = 0

\* C11: cancelBuildingConstruction of an improvement construction of level L
\* adds gold = cost.gold * defaultFactor^L, wood = cost.wood * defaultFactor^L
\* and plot = cost.plot * decreasedFactor^L of the static instantiation cost to
\* the resources, removes only that construction, and the building stays in
\* the garrison with the level below
C11_CancelImprovementRefunds ==
  (/\ last.op = "cancelBuildingConstruction"
   /\ last.ok
   /\ findBuilding(prev, last.bid) # 0) =>
    LET bi == findBuilding(prev, last.bid)
        b == prev.buildings[bi]
        ci == findBuildingConstruction(b, last.cid)
        c == b.constructions[ci]
        cost == StaticBuilding(b.code).cost
        L == c.improvement.level
    IN
    c.improvement # NoImprovement =>
      /\ db.resources.gold = prev.resources.gold
           + (cost.gold * Pow(DefaultFactorTenths, L) * Cent) \div Pow(10, L)
      /\ db.resources.wood = prev.resources.wood
           + (cost.wood * Pow(DefaultFactorTenths, L) * Cent) \div Pow(10, L)
      /\ db.resources.plot = prev.resources.plot
           + (cost.plot * Pow(DecreasedFactorTenths, L) * Cent) \div Pow(10, L)
      /\ db.buildings = [prev.buildings EXCEPT ![bi].constructions = RemoveAt(@, ci)]
      /\ CurrentLevel(db.buildings[bi], c.improvement.type) = L - 1

\* C12: a successful unassignUnit on a goldmine (sawmill) deletes
\* goldLastUpdate (woodLastUpdate) when no harvest assignment remains on any
\* goldmine (sawmill) of the garrison, and keeps the timestamp when a harvest
\* assignment remains on the same or on another building of that code
C12_UnassignTogglesLastUpdate ==
  (/\ last.op = "unassignUnit"
   /\ last.ok
   /\ findBuilding(prev, last.bid) # 0) =>
    LET code == prev.buildings[findBuilding(prev, last.bid)].code IN
    /\ code = "goldmine" =>
         IF HarvestedBy("gold")
           THEN prev.resources.goldLastUpdate # NoDate
                  => db.resources.goldLastUpdate # NoDate
           ELSE db.resources.goldLastUpdate = NoDate
    /\ code = "sawmill" =>
         IF HarvestedBy("wood")
           THEN prev.resources.woodLastUpdate # NoDate
                  => db.resources.woodLastUpdate # NoDate
           ELSE db.resources.woodLastUpdate = NoDate

\* C13: in a garrison with a resource timestamp, updateResources run a second
\* time at the instant of a first run (zero elapsed time) changes nothing: the
\* resource amounts and both timestamps after the second run are those after
\* the first
C13_SecondAccrualIsNoOp ==
  (/\ Settled
   /\ (db.resources.goldLastUpdate # NoDate \/ db.resources.woodLastUpdate # NoDate)) =>
    \A t \in {now, now + TickMs} :
      LET first == updateResources(db, t)
          second == updateResources(first, t)
      IN second = first

\* harvesters and a timestamp behind the clock: the first run credits a yield
C13_YieldPending ==
  /\ updateResources(db, now).resources.gold > db.resources.gold
  /\ updateResources(db, now).resources.goldLastUpdate = now

\* the garrison's only building of its code, a goldmine or a sawmill, with
\* peasants harvesting on it and the timestamp of its resource present
SoleHarvested(g, i) ==
  /\ g.buildings[i].code \in {"goldmine", "sawmill"}
  /\ \A j \in 1..Len(g.buildings) :
       g.buildings[j].code = g.buildings[i].code => j = i
  /\ assignedWorkers(g, g.buildings[i]) > 0
  /\ (IF g.buildings[i].code = "goldmine" THEN g.resources.goldLastUpdate
                                          ELSE g.resources.woodLastUpdate) # NoDate

\* the timestamp of the resource the building of that code produces
LastUpdateOf(R, code) ==
  IF code = "goldmine" THEN R.goldLastUpdate ELSE R.woodLastUpdate

\* the resources after one accrual at ms after the timestamp of the building's
\* resource
AccruedAfter(g, i, ms) ==
  updateResources(g, LastUpdateOf(g.resources, g.buildings[i].code) + ms).resources

\* C14: for one idle goldmine or sawmill with w > 0 harvesters and a timestamp,
\* one accrual m minutes after the timestamp adds exactly
\* floor(amount * m * w) to the resource and sets the timestamp to the moment
\* of the accrual; the amount added never decreases when m grows, and doubling
\* m doubles it up to the truncation of the floor
C14_AccrualFormula ==
  \A i \in 1..Len(db.buildings) :
    LET b == db.buildings[i]
        st == StaticBuilding(b.code)
        res == st.harvest.resource
        w == assignedWorkers(db, b)
        stamp == LastUpdateOf(db.resources, b.code)
        had == db.resources[res]
        half == AccruedAfter(db, i, TickMs)
        one == AccruedAfter(db, i, 2 * TickMs)
        oneHalf == AccruedAfter(db, i, 3 * TickMs)
        two == AccruedAfter(db, i, 4 * TickMs)
        Floor(m) == ((st.harvest.amount * m * w) \div MinuteMs) * Cent
    IN
    (Settled /\ SoleHarvested(db, i) /\ ~Busy(b, stamp + TickMs)) =>
      /\ half[res] - had = Floor(TickMs)
      /\ one[res] - had = Floor(2 * TickMs)
      /\ oneHalf[res] - had = Floor(3 * TickMs)
      /\ two[res] - had = Floor(4 * TickMs)
      /\ LastUpdateOf(half, b.code) = stamp + TickMs
      /\ LastUpdateOf(two, b.code) = stamp + 4 * TickMs
      /\ half[res] <= one[res] /\ one[res] <= oneHalf[res] /\ oneHalf[res] <= two[res]
      /\ one[res] - had >= 2 * (half[res] - had)
      /\ one[res] - had <= 2 * (half[res] - had) + Cent
      /\ two[res] - had >= 2 * (one[res] - had)
      /\ two[res] - had <= 2 * (one[res] - had) + Cent

\* a request has run the accrual half a minute after the timestamp with one
\* peasant on the goldmine: 1 gold of the 1.5 is credited
C14_HalfMinuteCredited ==
  /\ last.ok
  /\ last.op \in {"assignUnit", "unassignUnit", "addUnit", "addBuilding"}
  /\ Len(prev.buildings) = 1
  /\ SoleHarvested(prev, 1)
  /\ assignedWorkers(prev, prev.buildings[1]) = 1
  /\ ~Busy(prev.buildings[1], now)
  /\ now = prev.resources.goldLastUpdate + TickMs
  /\ updateResources(prev, now).resources.gold = prev.resources.gold + Cent
  /\ updateResources(prev, now).resources.goldLastUpdate = now

\* C15: addBuilding, cancelBuildingConstruction, upgradeBuilding,
\* extendBuilding and addUnit run the accrual before their cost check or
\* refund: the resources they save are those the same request saves on the
\* document whose yield up to now has already been credited
C15_AccrualBeforeCostOrRefund ==
  (/\ last.ok
   /\ last.op \in {"addBuilding", "cancelBuildingConstruction", "upgradeBuilding",
                   "extendBuilding", "addUnit"}) =>
    LET fresh == updateResources(prev, now)
        r == Apply(fresh, now, last)
    IN /\ r.ok
       /\ db.resources = save(fresh, r.g, r.paths).resources

\* C16: assignUnit and unassignUnit of peasants run the accrual before they
\* change the harvest assignment: the resources saved are those of the accrual
\* at the moment of the request, and the yield from the timestamp to that
\* moment is computed with the number of harvesters assigned before the request
C16_AccrualBeforeReassignment ==
  (/\ last.ok
   /\ last.op \in {"assignUnit", "unassignUnit"}
   /\ last.code = "peasant"
   /\ findBuilding(prev, last.bid) # 0) =>
    LET fresh == updateResources(prev, now).resources
        bi == findBuilding(prev, last.bid)
        b == prev.buildings[bi]
        st == StaticBuilding(b.code)
        before == assignedWorkers(prev, b)
        elapsed == now - LastUpdateOf(prev.resources, b.code)
    IN
    /\ db.resources.gold = fresh.gold
    /\ db.resources.wood = fresh.wood
    /\ db.resources.food = fresh.food
    /\ db.resources.plot = fresh.plot
    /\ (SoleHarvested(prev, bi) /\ ~Busy(b, now)) =>
         db.resources[st.harvest.resource] =
           prev.resources[st.harvest.resource]
             + ((st.harvest.amount * elapsed * before) \div MinuteMs) * Cent

\* a second peasant joins the first on the goldmine half a minute after the
\* timestamp: the yield credited is that of one harvester
C16_SecondPeasantJoins ==
  /\ last.ok
  /\ last.op = "assignUnit"
  /\ last.code = "peasant"
  /\ findBuilding(prev, last.bid) # 0
  /\ findBuilding(db, last.bid) # 0
  /\ SoleHarvested(prev, findBuilding(prev, last.bid))
  /\ assignedWorkers(prev, prev.buildings[findBuilding(prev, last.bid)]) = 1
  /\ assignedWorkers(db, db.buildings[findBuilding(db, last.bid)]) = 2
  /\ now = prev.resources.goldLastUpdate + TickMs
  /\ db.resources.gold = prev.resources.gold + Cent
  /\ db.resources.goldLastUpdate = now

\* C17: cancelBuildingConstruction removes exactly the peasants' 'construction'
\* assignment that was created with the cancelled construction (same building,
\* same endDate) and leaves every other assignment of the peasants as it was,
\* whatever was served between the construction and its cancellation
C17_CancelReleasesOwnWorkforce ==
  (/\ last.op = "cancelBuildingConstruction"
   /\ last.ok
   /\ findBuilding(prev, last.bid) # 0
   /\ findUnit(prev, "peasant") # 0) =>
    LET b == prev.buildings[findBuilding(prev, last.bid)]
        c == b.constructions[findBuildingConstruction(b, last.cid)]
        before == prev.units[findUnit(prev, "peasant")].assignments
        after == db.units[findUnit(db, "peasant")].assignments
        own == FindIndex(before, LAMBDA a : /\ a.type = "construction"
                                            /\ a.buildingId = b.id
                                            /\ a.endDate = c.endDate)
    IN own # 0 /\ after = RemoveAt(before, own)

\* C18: cancelBuildingConstruction on a construction of a harvest building
\* without maxWorkforce takes the one-time yield back: the harvested resource
\* is debited floor(amount * decreasedFactor^level), level being that of the
\* cancelled construction, and never falls below 0
C18_CancelTakesGiftBack ==
  (/\ last.op = "cancelBuildingConstruction"
   /\ last.ok
   /\ findBuilding(prev, last.bid) # 0) =>
    LET b == prev.buildings[findBuilding(prev, last.bid)]
        c == b.constructions[findBuildingConstruction(b, last.cid)]
        st == StaticBuilding(b.code)
        res == st.harvest.resource
        owed == ((st.harvest.amount * Pow(DecreasedFactorTenths, c.improvement.level))
                   \div Pow(10, c.improvement.level)) * Cent
    IN
    (st.hasHarvest /\ st.harvest.maxWorkforce = NoValue) =>
      db.resources[res] = IF prev.resources[res] - owed >= 0
                            THEN prev.resources[res] - owed ELSE 0

\* the building has a harvest without maxWorkforce
IsGift(code) ==
  StaticBuilding(code).hasHarvest /\ StaticBuilding(code).harvest.maxWorkforce = NoValue

\* C19: the yield of a harvest building without maxWorkforce is credited once
\* by the request that starts its construction (amount) or its improvement
\* (floor(amount * 1.2^level)), and never by the accrual: updateResources
\* leaves the resource of such a building as it is once the garrison has one,
\* whatever time has passed, and so does every request
\* that starts no construction on one, but for the food addUnit spends
C19_GiftCreditedOnce ==
  /\ (Settled /\ \E i \in 1..Len(db.buildings) : IsGift(db.buildings[i].code)) =>
       \A t \in {now + TickMs, now + 2 * TickMs} :
         updateResources(db, t).resources.food = db.resources.food
  /\ (/\ last.ok
      /\ last.op \in {"addBuilding", "upgradeBuilding", "extendBuilding"}
      /\ findBuilding(db, last.bid) # 0) =>
       LET b == db.buildings[findBuilding(db, last.bid)]
           c == b.constructions[findBuildingConstruction(b, last.cid)]
           st == StaticBuilding(b.code)
           L == c.improvement.level
       IN IF IsGift(b.code)
            THEN db.resources.food = prev.resources.food
                   + ((st.harvest.amount * Pow(12, L)) \div Pow(10, L)) * Cent
            ELSE db.resources.food = prev.resources.food
  /\ (last.ok /\ last.op \in {"tick", "assignUnit", "unassignUnit"}) =>
       db.resources.food = prev.resources.food
  /\ (last.ok /\ last.op = "addUnit") =>
       db.resources.food = prev.resources.food
                             - StaticUnit(last.code).cost.food * last.n * Cent

\* the improvement of a finished farm has been started after time has passed
\* and has credited its yield; the yield of the farm's construction is there
\* once
C19_FarmImproved ==
  /\ last.ok
  /\ last.op \in {"upgradeBuilding", "extendBuilding"}
  /\ findBuilding(db, last.bid) # 0
  /\ IsGift(db.buildings[findBuilding(db, last.bid)].code)
  /\ now > 0
  /\ db.resources.food = prev.resources.food + 3 * Cent
  /\ db.resources.food = create.resources.food + 6 * Cent

\* the garrison owns a building of the entry's code that is past its
\* instantiation and, when the entry names an upgradeLevel, has a finished
\* improvement construction of that level or higher
Owned(entry, g, t) ==
  \E i \in 1..Len(g.buildings) :
    LET b == g.buildings[i] IN
    /\ b.code = entry.code
    /\ \A c \in 1..Len(b.constructions) :
         b.constructions[c].improvement = NoImprovement
           => b.constructions[c].endDate <= t
    /\ (entry.upgradeLevel # NoValue /\ entry.upgradeLevel # 0) =>
         \E c \in 1..Len(b.constructions) :
           /\ b.constructions[c].improvement # NoImprovement
           /\ b.constructions[c].improvement.level >= entry.upgradeLevel
           /\ b.constructions[c].endDate <= t

\* C20: the requirement validation of addUnit and of extendBuilding passes if
\* and only if for every required entry the garrison owns a building of that
\* code which is not mid-instantiation and, when an upgradeLevel is given, has
\* an improvement construction reaching that level with endDate <= now; one
\* unmet entry rejects the request with 412
C20_RequirementsIffOwned ==
  Settled =>
  /\ \A code \in UnitCodes :
       LET required == StaticUnit(code).required IN
       /\ ~Unfulfilled(required, db.buildings, now)
            <=> \A e \in 1..Len(required) : Owned(required[e], db, now)
       /\ Unfulfilled(required, db.buildings, now)
            => addUnit(db, now, code, 1).status = 412
  /\ \A i \in 1..Len(db.buildings) :
       LET b == db.buildings[i]
           st == StaticBuilding(b.code)
           nextLevel == CurrentLevel(b, "extension") + 1
           required == st.extension.required
       IN
       (st.hasExtension /\ ~Busy(b, now) /\ nextLevel <= st.extension.maxLevel) =>
         /\ ~UnfulfilledExtension(required, db.buildings, now, nextLevel)
              <=> \A e \in 1..Len(required) :
                    required[e].level = nextLevel => Owned(required[e], db, now)
         /\ UnfulfilledExtension(required, db.buildings, now, nextLevel)
              => \A w \in 1..MaxWorkforce :
                   extendBuilding(db, now, nextId, b.id, w).status = 412

\* the building holds an extension construction of its code's maxLevel or more
FullyExtended(building) ==
  \E c \in 1..Len(building.constructions) :
    /\ building.constructions[c].improvement.type = "extension"
    /\ building.constructions[c].improvement.level
         >= StaticBuilding(building.code).extension.maxLevel

\* C21: extendBuilding is rejected when the building's extension level + 1
\* exceeds the static extension.maxLevel (with 400 once the building is idle),
\* and no building ever holds an extension construction of a level above the
\* maxLevel of its code
C21_ExtensionWithinMaxLevel ==
  /\ \A i \in 1..Len(db.buildings) : \A c \in 1..Len(db.buildings[i].constructions) :
       db.buildings[i].constructions[c].improvement.type = "extension" =>
         /\ StaticBuilding(db.buildings[i].code).hasExtension
         /\ db.buildings[i].constructions[c].improvement.level
              <= StaticBuilding(db.buildings[i].code).extension.maxLevel
  /\ \A i \in 1..Len(db.buildings) :
       (Settled /\ FullyExtended(db.buildings[i])) =>
         \A w \in 1..MaxWorkforce : \A t \in {now, now + 2 * TickMs} :
           LET extended == extendBuilding(db, t, nextId, db.buildings[i].id, w)
           IN /\ ~extended.ok
              /\ ~Busy(db.buildings[i], t) => extended.status = 400
  /\ (last.op = "extendBuilding" /\ last.ok /\ findBuilding(prev, last.bid) # 0) =>
       ~FullyExtended(prev.buildings[findBuilding(prev, last.bid)])

\* the farm holds its one extension, and once that has ended a further
\* extendBuilding is answered with 400
C21_FarmFullyExtended ==
  /\ Len(db.buildings) = 1
  /\ db.buildings[1].code = "farm"
  /\ FullyExtended(db.buildings[1])
  /\ ~Busy(db.buildings[1], now + 2 * TickMs)
  /\ extendBuilding(db, now + 2 * TickMs, nextId, db.buildings[1].id, 2).status = 400

\* positions of the unit's 'harvest' records for the building
HarvestRecords(unit, buildingId) ==
  {a \in 1..Len(unit.assignments) :
     unit.assignments[a].type = "harvest" /\ unit.assignments[a].buildingId = buildingId}

\* the quantity of the unit harvesting at the building
HarvestQuantity(unit, buildingId) ==
  SeqSum([a \in 1..Len(unit.assignments) |->
            IF a \in HarvestRecords(unit, buildingId)
              THEN unit.assignments[a].quantity ELSE 0])

UnitCost(code, quantity, resource) == StaticUnit(code).cost[resource] * quantity * Cent

\* C23: a served addUnit of q units debits exactly q times the static cost in
\* gold, wood and food from the totals the accrual leaves; when one of those
\* totals is lower than its cost scaled by q, addUnit fails with 412, and a
\* failed addUnit persists neither the unit quantity, nor the training
\* assignments, nor the resources
C23_AddUnitDebitsOrFails ==
  /\ (last.op = "addUnit" /\ last.ok) =>
       LET fresh == updateResources(prev, now).resources
           u == findUnit(db, last.code)
           before == IF findUnit(prev, last.code) = 0 THEN 0
                     ELSE prev.units[findUnit(prev, last.code)].quantity
       IN /\ db.resources.gold = fresh.gold - UnitCost(last.code, last.n, "gold")
          /\ db.resources.wood = fresh.wood - UnitCost(last.code, last.n, "wood")
          /\ db.resources.food = fresh.food - UnitCost(last.code, last.n, "food")
          /\ db.resources.plot = fresh.plot
          /\ db.units[u].quantity = before + last.n
  /\ (last.op = "addUnit" /\ ~last.ok) => db = prev
  /\ Settled =>
       \A code \in UnitCodes, quantity \in 1..MaxQuantity :
         (\E resource \in {"gold", "wood", "food"} :
            db.resources[resource] < UnitCost(code, quantity, resource)) =>
           LET fresh == updateResources(db, now).resources
               trained == addUnit(db, now, code, quantity)
               short == \E resource \in {"gold", "wood", "food"} :
                          fresh[resource] < UnitCost(code, quantity, resource)
           IN short =>
                /\ ~trained.ok
                /\ ~Unfulfilled(StaticUnit(code).required, db.buildings, now)
                     => trained.status = 412

\* two peasants were trained, and the food left does not pay for two more
C23_FoodShort ==
  /\ last.op = "addUnit" /\ last.ok /\ last.n = 2
  /\ db.resources.food < UnitCost("peasant", 2, "food")
  /\ db.resources.gold >= UnitCost("peasant", 2, "gold")
  /\ addUnit(db, now, "peasant", 2).status = 412

\* C24: in every mutating operation the validations all come before the first
\* change to the loaded garrison: whenever an operation throws, the garrison
\* it holds in memory equals the one it loaded
C24_ThrowLeavesLoadedGarrison ==
  Settled =>
    /\ \A code \in UnitCodes, quantity \in 1..MaxQuantity :
         LET trained == addUnit(findById(db), now, code, quantity)
         IN ~trained.ok => trained.g = findById(db)
    /\ \A code \in BuildingCodes, workforce \in 1..MaxWorkforce :
         LET built == addBuilding(findById(db), now, nextId, code, workforce)
         IN ~built.ok => built.g = findById(db)
    /\ \A bid \in BuildingIds(db), workforce \in 1..MaxWorkforce :
         LET upgraded == upgradeBuilding(findById(db), now, nextId, bid, workforce)
             extended == extendBuilding(findById(db), now, nextId, bid, workforce)
         IN /\ ~upgraded.ok => upgraded.g = findById(db)
            /\ ~extended.ok => extended.g = findById(db)
    /\ \A bid \in BuildingIds(db) : \A cid \in ConstructionIds(db, bid) :
         LET cancelled == cancelBuildingConstruction(findById(db), now, bid, cid)
         IN ~cancelled.ok => cancelled.g = findById(db)
    /\ \A bid \in BuildingIds(db), code \in UnitCodes, quantity \in 1..MaxQuantity :
         LET assigned == assignUnit(findById(db), now, bid, code, quantity)
             unassigned == unassignUnit(findById(db), now, bid, code, quantity)
         IN /\ ~assigned.ok => assigned.g = findById(db)
            /\ ~unassigned.ok => unassigned.g = findById(db)

\* C28: each building has exactly one construction without an improvement, it
\* is the first of its constructions, and every later one is an improvement of
\* type 'upgrade' or 'extension' with a level
C28_InstantiationFirst ==
  \A i \in 1..Len(db.buildings) :
    LET constructions == db.buildings[i].constructions IN
    /\ Len(constructions) >= 1
    /\ constructions[1].improvement = NoImprovement
    /\ \A c \in 2..Len(constructions) :
         /\ constructions[c].improvement.type \in {"upgrade", "extension"}
         /\ constructions[c].improvement.level >= 1

\* an extension was started and two buildings of the code hold it, each after
\* its instantiation
C28_ExtensionOnTwoBuildings ==
  /\ last.op = "extendBuilding" /\ last.ok
  /\ Len(db.buildings) = 2
  /\ \A i \in 1..2 :
       /\ Len(db.buildings[i].constructions) = 2
       /\ db.buildings[i].constructions[2].improvement.type = "extension"
\* C29: a construction whose endDate has passed stays in its building's
\* constructions with its beginDate, endDate, workforce and improvement under
\* every later operation; cancelBuildingConstruction naming it changes neither
\* the buildings nor the resources
C29_EndedConstructionStays ==
  /\ \A i \in 1..Len(prev.buildings) : \A c \in 1..Len(prev.buildings[i].constructions) :
       prev.buildings[i].constructions[c].endDate <= now =>
         \E j \in 1..Len(db.buildings) :
           /\ db.buildings[j].id = prev.buildings[i].id
           /\ \E d \in 1..Len(db.buildings[j].constructions) :
                db.buildings[j].constructions[d] = prev.buildings[i].constructions[c]
  /\ (last.op = "cancelBuildingConstruction" /\ last.ok
      /\ \E i \in 1..Len(prev.buildings) :
           \E c \in 1..Len(prev.buildings[i].constructions) :
             /\ prev.buildings[i].constructions[c].id = last.cid
             /\ prev.buildings[i].constructions[c].endDate <= now) =>
       /\ db.buildings = prev.buildings
       /\ db.resources = prev.resources

\* the workforces extendBuilding is asked with: below, within and above the
\* ranges of the extension levels 1 and 2
Workforces == 1..5

\* the peasants no unexpired assignment holds
IdlePeasants(g, t) ==
  IF findUnit(g, "peasant") = 0 THEN 0
  ELSE LET peasants == g.units[findUnit(g, "peasant")] IN
       peasants.quantity
         - SeqSum([a \in 1..Len(peasants.assignments) |->
                     IF peasants.assignments[a].endDate > t
                       THEN peasants.assignments[a].quantity ELSE 0])

\* C30: extendBuilding to level L succeeds only with a workforce of at least
\* minWorkforce * 2^L, at most twice that, and at most the peasants no
\* unexpired assignment holds; a workforce outside is rejected, and a rejected
\* extendBuilding persists nothing
C30_ExtensionWorkforceInRange ==
  /\ Settled =>
       LET idle == IdlePeasants(db, now) IN
       \A i \in 1..Len(db.buildings) :
         LET building == db.buildings[i]
             level == SeqMax([c \in 1..Len(building.constructions) |->
                                IF building.constructions[c].improvement.type = "extension"
                                  THEN building.constructions[c].improvement.level
                                  ELSE 0]) + 1
             minimum == StaticBuilding(building.code).minWorkforce * Pow(2, level)
         IN \A workforce \in Workforces :
              (workforce < minimum \/ workforce > 2 * minimum \/ workforce > idle) =>
                ~extendBuilding(db, now, nextId, building.id, workforce).ok
  /\ (last.op = "extendBuilding" /\ last.ok) =>
       /\ last.n <= IdlePeasants(prev, now)
       /\ \E i \in 1..Len(db.buildings) :
            /\ db.buildings[i].id = last.bid
            /\ \E c \in 1..Len(db.buildings[i].constructions) :
                 LET construction == db.buildings[i].constructions[c]
                     minimum == StaticBuilding(db.buildings[i].code).minWorkforce
                                  * Pow(2, construction.improvement.level)
                 IN /\ construction.id = last.cid
                    /\ construction.improvement.type = "extension"
                    /\ construction.workforce = last.n
                    /\ minimum <= last.n /\ last.n <= 2 * minimum
  /\ (last.op = "extendBuilding" /\ ~last.ok) => db = prev

\* the goldmine was extended to level 1 by two peasants, the minimum, and one
\* peasant was not enough
C30_MinimumWorkforceTaken ==
  /\ last.op = "extendBuilding" /\ last.ok /\ last.n = 2
  /\ extendBuilding(prev, now, nextId, last.bid, 1).status = 400

MutatingOps ==
  {"addBuilding", "cancelBuildingConstruction", "upgradeBuilding", "extendBuilding",
   "addUnit", "assignUnit", "unassignUnit"}

\* no stored garrison has the id the requests address
ServedMissing == \A i \in 1..Len(coll) : coll[i].id # Served

C26_CreatedThenOnlyOperated ==
  /\ (last.op = "create" /\ last.ok /\ last.bid = Served) =>
       /\ ~prev.exists
       /\ db.exists
       /\ db.resources = [gold |-> 625 * Cent, wood |-> 320 * Cent, food |-> 3 * Cent,
                          plot |-> 32 * Cent,
                          goldLastUpdate |-> NoDate, woodLastUpdate |-> NoDate]
       /\ db.buildings = << >>
       /\ Len(db.units) = 1
       /\ db.units[1] = [code |-> "peasant", quantity |-> 3, assignments |-> << >>]
  /\ prev.exists =>
       /\ db.exists
       /\ \E i \in 1..Len(coll) : coll[i].id = Served
       /\ db # prev => (last.op \in MutatingOps /\ last.ok)
  /\ (~prev.exists /\ db.exists) => (last.op = "create" /\ last.ok /\ last.bid = Served)
  /\ \A i, j \in 1..Len(coll) : coll[i].id = coll[j].id => i = j

\* the garrison was created and a first building was started on it
C26_CreatedAndBuilt ==
  /\ \E i \in 1..Len(coll) : coll[i].id = Served
  /\ last.op = "addBuilding" /\ last.ok
  /\ prev.units = << [code |-> "peasant", quantity |-> 3, assignments |-> << >>] >>
  /\ Len(db.buildings) = 1

\* C27: create with the name of an already stored garrison fails with 409 and
\* stores no garrison, whichever character owns the stored one; no two stored
\* garrisons share a name
C27_NamesUnique ==
  /\ \A i, j \in 1..Len(coll) : coll[i].name = coll[j].name => i = j
  /\ Settled =>
       \A characterId \in Characters, name \in Names, zone \in Zones :
         (\E i \in 1..Len(coll) : coll[i].name = name) =>
           CreateStatus(coll, characterId, name, zone) = 409

\* the levels of the building's improvements of one type, in list order
LevelsOf(building, type) ==
  LET kept == SelectSeq(building.constructions, LAMBDA c : c.improvement.type = type)
  IN [k \in 1..Len(kept) |-> kept[k].improvement.level]

\* C31: for each improvement type the levels of a building's improvement
\* constructions of that type are 1, 2, ..., k in list order, with no gap and
\* no duplicate
C31_LevelsConsecutive ==
  \A i \in 1..Len(db.buildings) : \A type \in {"upgrade", "extension"} :
    LET levels == LevelsOf(db.buildings[i], type)
    IN \A k \in 1..Len(levels) : levels[k] = k

\* C32: extendBuilding appends the new extension construction to the building
\* named by buildingId only; every other building, those of the same code
\* included, keeps its constructions, so that an extension makes no other
\* building busy
C32_ExtendTouchesOneBuilding ==
  (last.op = "extendBuilding" /\ last.ok) =>
    /\ Len(db.buildings) = Len(prev.buildings)
    /\ \A i \in 1..Len(prev.buildings) :
         IF prev.buildings[i].id = last.bid
           THEN Len(db.buildings[i].constructions)
                  = Len(prev.buildings[i].constructions) + 1
           ELSE /\ db.buildings[i].constructions = prev.buildings[i].constructions
                /\ Busy(db.buildings[i], now) = Busy(prev.buildings[i], now)

\* the quantity of the unit held by assignments that have not expired at t
Committed(unit, t) ==
  SeqSum([a \in 1..Len(unit.assignments) |->
            IF unit.assignments[a].endDate > t THEN unit.assignments[a].quantity ELSE 0])

\* C33: under requests served one after another, at every time and for each
\* unit type, the quantities of its unexpired assignments (endDate > now,
\* harvest included) sum to at most its quantity: the idle count is never
\* negative
C33_IdleNeverNegative ==
  \A u \in 1..Len(db.units) : \A t \in {now, now + TickMs} :
    Committed(db.units[u], t) <= db.units[u].quantity

\* every peasant is committed, one of them to a harvest, after an assignment
\* that took the last idle one
C33_NoPeasantIdle ==
  /\ last.op = "assignUnit" /\ last.ok
  /\ Committed(db.units[1], now) = db.units[1].quantity
  /\ \E a \in 1..Len(db.units[1].assignments) :
       /\ db.units[1].assignments[a].type = "construction"
       /\ db.units[1].assignments[a].endDate > now

\* C34: for one harvest building with a constant number of harvesters the
\* amount credited over an interval does not depend on the number of accruals
\* inside it: an accrual at t1 and another at t2 credit together what a single
\* accrual at t2 credits
C34_AccrualCountIndependent ==
  \A i \in 1..Len(db.buildings) :
    (Settled /\ SoleHarvested(db, i)
     /\ ~Busy(db.buildings[i], LastUpdateOf(db.resources, db.buildings[i].code))) =>
      LET t1 == LastUpdateOf(db.resources, db.buildings[i].code) + TickMs
          t2 == t1 + TickMs
          once == updateResources(db, t2)
          twice == updateResources(updateResources(db, t1), t2)
      IN twice.resources = once.resources

\* what one accrual ms after the timestamp owes for the idle buildings of the
\* code that have harvesters, each floored on its own
RECURSIVE OwedFrom(_, _, _, _, _)
OwedFrom(g, code, ms, t, i) ==
  IF i > Len(g.buildings) THEN 0
  ELSE (IF g.buildings[i].code = code /\ ~Busy(g.buildings[i], t)
          THEN FloorDiv(StaticBuilding(code).harvest.amount * ms
                          * assignedWorkers(g, g.buildings[i]), MinuteMs)
          ELSE 0)
       + OwedFrom(g, code, ms, t, i + 1)

\* two idle buildings of the code, each with harvesters
TwoHarvested(g, code, t) ==
  \E i, j \in 1..Len(g.buildings) :
    /\ i < j
    /\ g.buildings[i].code = code /\ g.buildings[j].code = code
    /\ ~Busy(g.buildings[i], t) /\ ~Busy(g.buildings[j], t)
    /\ assignedWorkers(g, g.buildings[i]) > 0
    /\ assignedWorkers(g, g.buildings[j]) > 0

\* C35: when two idle buildings producing the same resource have w1 and w2
\* harvesters, one accrual m minutes after the shared timestamp credits the
\* yield of both, floor(amount * m * w1) + floor(amount * m * w2)
C35_BothBuildingsCredited ==
  \A code \in {"goldmine", "sawmill"} :
    LET stamp == LastUpdateOf(db.resources, code)
        resource == StaticBuilding(code).harvest.resource
    IN (Settled /\ stamp # NoDate
        /\ TwoHarvested(db, code, stamp + MinuteMs)) =>
         updateResources(db, stamp + MinuteMs).resources[resource]
           = db.resources[resource]
               + OwedFrom(db, code, MinuteMs, stamp + MinuteMs, 1) * Cent

\* C36: the time a harvest building is busy with an improvement yields
\* nothing: with harvesters assigned throughout, the first accrual after the
\* improvement has ended credits no yield for the interval from the
\* improvement's beginDate to its endDate
C36_BusyTimeYieldsNothing ==
  \A i \in 1..Len(db.buildings) :
    LET building == db.buildings[i]
        started == building.constructions[Len(building.constructions)]
        stamp == LastUpdateOf(db.resources, building.code)
        resource == StaticBuilding(building.code).harvest.resource
    IN (Settled /\ SoleHarvested(db, i)
        /\ started.improvement.type # "none"
        /\ started.endDate > now
        /\ stamp <= started.beginDate) =>
         updateResources(db, started.endDate).resources[resource]
           = db.resources[resource]
               + FloorDiv(StaticBuilding(building.code).harvest.amount
                            * (started.beginDate - stamp)
                            * assignedWorkers(db, building), MinuteMs) * Cent

\* the quantity of all units in 'harvest' assignments on the building
RECURSIVE HarvestersFrom(_, _, _)
HarvestersFrom(g, buildingId, u) ==
  IF u > Len(g.units) THEN 0
  ELSE HarvestQuantity(g.units[u], buildingId) + HarvestersFrom(g, buildingId, u + 1)

\* C37: the harvest assignments on a building never hold more than the static
\* harvest.maxWorkforce of its code, and a building whose harvest has no
\* maxWorkforce holds none; assignUnit rejects what would break either
C37_HarvestersWithinMaxWorkforce ==
  \A i \in 1..Len(db.buildings) :
    LET st == StaticBuilding(db.buildings[i].code)
        harvesters == HarvestersFrom(db, db.buildings[i].id, 1)
    IN IF st.hasHarvest /\ st.harvest.maxWorkforce # NoValue
         THEN harvesters <= st.harvest.maxWorkforce
         ELSE harvesters = 0

\* every assignment of the garrison that names a building names one it holds
NamesPresent(g) ==
  \A u \in 1..Len(g.units) :
    \A k \in 1..Len(g.units[u].assignments) :
      LET a == g.units[u].assignments[k]
      IN a.buildingId # NoId => findBuilding(g, a.buildingId) # 0

\* C38: every assignment that names a building names one present in the
\* garrison; in particular, once cancelBuildingConstruction has removed a
\* building under construction no assignment refers to it
C38_AssignmentsNameBuildings ==
  /\ NamesPresent(db)
  /\ \A i \in 1..Len(db.buildings) :
       LET building == db.buildings[i]
           first == building.constructions[1]
       IN (Settled /\ Len(building.constructions) = 1 /\ first.endDate > now) =>
            NamesPresent(cancelBuildingConstruction(db, now, building.id, first.id).g)

\* the stored amounts of the four resources
Holdings(resources) ==
  <<resources.gold, resources.wood, resources.food, resources.plot>>

\* the amounts left when the construction that the request started is cancelled
\* at the same instant
Undone(started, t, buildingId, constructionId) ==
  Holdings(cancelBuildingConstruction(started.g, t, buildingId, constructionId).g.resources)

\* C39: starting a construction (addBuilding, upgradeBuilding or
\* extendBuilding, any code, any level) and cancelling it at the same instant
\* leaves gold, wood, food and plot as they were before the first request; it is
\* stated in the states where no yield is due, so that accrual plays no part
C39_StartThenCancelNeutral ==
  (Settled /\ updateResources(db, now).resources = db.resources) =>
    \A workforce \in 1..MaxWorkforce :
      /\ \A code \in BuildingCodes :
           LET started == addBuilding(db, now, nextId, code, workforce)
           IN started.ok => Undone(started, now, nextId, nextId + 1) = Holdings(db.resources)
      /\ \A bid \in BuildingIds(db) :
           LET started == upgradeBuilding(db, now, nextId, bid, workforce)
           IN started.ok => Undone(started, now, bid, nextId) = Holdings(db.resources)
      /\ \A bid \in BuildingIds(db) :
           LET started == extendBuilding(db, now, nextId, bid, workforce)
           IN started.ok => Undone(started, now, bid, nextId) = Holdings(db.resources)

====
